---- MODULE Spec2Model ----
(***************************************************************************)
(* A model of activities.py: the dataset validator, the URL                *)
(* canonicaliser, the per-organisation specification parsers, the          *)
(* redirect-following fetch loop and the `add` flow.                        *)
(*                                                                         *)
(* Python strings the code inspects character by character (URLs, titles,  *)
(* meta contents) are sequences of one-character strings.  Python          *)
(* exceptions are outcomes: a record whose kind names the exception.       *)
(***************************************************************************)
EXTENDS Integers, Sequences, FiniteSets, TLC

VARIABLES
    pc,          \* position of the running operation
    u,           \* clean_url: the URL string given
    once,        \* clean_url(u)
    twice,       \* clean_url(clean_url(u))
    entry,       \* validate_entry: the entry given
    data,        \* ActivitiesJson.data
    result,      \* what validate_entry / validate returned or raised
    orig_url,    \* SpecEntry.orig_url
    parser,      \* SpecEntry.parser
    url,         \* fetch_spec_data: the URL of the current call
    soup,        \* fetch_spec_data: the document fetched
    outcome,     \* what parser().parse(soup, url) returned or raised
    redirected,  \* a BetterUrl was followed
    error,       \* what ended the run, when it did not end normally
    fetched,     \* the URLs whose document was fetched so far in this run
    refetched,   \* the document of a URL was fetched a second time
    ENTRY,       \* SpecEntry.data
    file,        \* what activities.json holds
    filed        \* create_issue created a Github issue in this run

vars == <<pc, u, once, twice, entry, data, result,
          orig_url, parser, url, soup, outcome, redirected, error, fetched,
          refetched, ENTRY, file, filed>>

\* The variables of each part of the program.
urlVars == <<u, once, twice>>
validateVars == <<entry, data, result>>
fetchVars == <<orig_url, parser, url, soup, outcome, redirected, error, fetched,
               refetched, ENTRY>>
addVars == <<file, filed>>

\* The value of a variable a specification does not use.
Unused == "unused"

(***************************************************************************)
(* Python string operations                                                *)
(***************************************************************************)
LowerAlpha ==
    <<"a","b","c","d","e","f","g","h","i","j","k","l","m",
      "n","o","p","q","r","s","t","u","v","w","x","y","z">>

UpperAlpha ==
    <<"A","B","C","D","E","F","G","H","I","J","K","L","M",
      "N","O","P","Q","R","S","T","U","V","W","X","Y","Z">>

Digits == {"0","1","2","3","4","5","6","7","8","9"}

Whitespace == {" ", "\t", "\n"}

Range(s) == {s[i] : i \in 1..Len(s)}

\* c.lower() for one character
LowerChar(c) ==
    IF \E i \in 1..26 : UpperAlpha[i] = c
    THEN LowerAlpha[CHOOSE i \in 1..26 : UpperAlpha[i] = c]
    ELSE c

\* s.lower()
Lower(s) == [i \in 1..Len(s) |-> LowerChar(s[i])]

\* s[a-1:b] in Python terms: the characters at positions a..b (1-based)
Slice(s, a, b) == IF a > b THEN <<>> ELSE SubSeq(s, a, b)

SetMin(S) == CHOOSE x \in S : \A y \in S : x <= y
SetMax(S) == CHOOSE x \in S : \A y \in S : x >= y

\* s.find(c) for a one-character c, 1-based; 0 when absent
Find(s, c) ==
    LET hits == {i \in 1..Len(s) : s[i] = c}
    IN  IF hits = {} THEN 0 ELSE SetMin(hits)

\* s.rfind(c), 1-based; 0 when absent
RFind(s, c) ==
    LET hits == {i \in 1..Len(s) : s[i] = c}
    IN  IF hits = {} THEN 0 ELSE SetMax(hits)

\* s.startswith(p)
StartsWith(s, p) == Len(s) >= Len(p) /\ SubSeq(s, 1, Len(p)) = p

\* s.endswith(p)
EndsWith(s, p) ==
    Len(s) >= Len(p) /\ SubSeq(s, Len(s) - Len(p) + 1, Len(s)) = p

\* s.strip()
Strip(s) ==
    LET keep == {i \in 1..Len(s) : s[i] \notin Whitespace}
    IN  IF keep = {} THEN <<>> ELSE SubSeq(s, SetMin(keep), SetMax(keep))

\* s.isdigit()
IsDigit(s) == Len(s) > 0 /\ \A i \in 1..Len(s) : s[i] \in Digits

\* The pieces of s around the position i of a separator (0: no separator).
CutAt(s, i) ==
    IF i = 0 THEN <<s>> ELSE <<Slice(s, 1, i - 1), Slice(s, i + 1, Len(s))>>

\* s.split(c, 1): at most one split, at the first c
Split1(s, c) == CutAt(s, Find(s, c))

\* s.rsplit(c, 1): at most one split, at the last c
RSplit1(s, c) == CutAt(s, RFind(s, c))

\* s.split(c): every piece between occurrences of c
RECURSIVE Split(_, _)
Split(s, c) ==
    IF Find(s, c) = 0 THEN <<s>>
    ELSE <<Split1(s, c)[1]>> \o Split(Split1(s, c)[2], c)

(***************************************************************************)
(* urlsplit / urlunsplit of the standard library, as the code uses them    *)
(***************************************************************************)
SchemeChars == Range(LowerAlpha) \cup Range(UpperAlpha) \cup Digits \cup {"+", "-", "."}

\* The index where the network location ends: the first of / ? # , else the end.
NetlocEnd(rest) ==
    LET stops == {i \in 3..Len(rest) : rest[i] \in {"/", "?", "#"}}
    IN  IF stops = {} THEN Len(rest) ELSE SetMin(stops) - 1

\* Whether the text before the colon at i is a scheme.
HasScheme(urlstring, i) ==
    /\ i > 1
    /\ \A k \in 1..(i - 1) : urlstring[k] \in SchemeChars
    /\ \/ i = Len(urlstring)
       \/ \E k \in (i + 1)..Len(urlstring) : urlstring[k] \notin Digits

\* urlsplit, stage by stage: the scheme, the network location, then the
\* fragment and the query cut off the path.
SplitResult(scheme, netloc, bits, bits2) ==
    [scheme   |-> scheme,
     netloc   |-> netloc,
     path     |-> bits2[1],
     query    |-> IF Len(bits2) = 2 THEN bits2[2] ELSE <<>>,
     fragment |-> IF Len(bits) = 2 THEN bits[2] ELSE <<>>]

SplitFragment(scheme, netloc, bits) ==
    SplitResult(scheme, netloc, bits, Split1(bits[1], "?"))

SplitNetloc(scheme, rest, stop) ==
    IF StartsWith(rest, <<"/", "/">>)
    THEN SplitFragment(scheme, Slice(rest, 3, stop),
                       Split1(Slice(rest, stop + 1, Len(rest)), "#"))
    ELSE SplitFragment(scheme, <<>>, Split1(rest, "#"))

SplitScheme(urlstring, i, hasScheme) ==
    IF hasScheme
    THEN SplitNetloc(Lower(Slice(urlstring, 1, i - 1)),
                     Slice(urlstring, i + 1, Len(urlstring)),
                     NetlocEnd(Slice(urlstring, i + 1, Len(urlstring))))
    ELSE SplitNetloc(<<>>, urlstring, NetlocEnd(urlstring))

urlsplit(urlstring) ==
    SplitScheme(urlstring, Find(urlstring, ":"), HasScheme(urlstring, Find(urlstring, ":")))

\* urlunsplit([scheme, netloc, path, '', ''])
urlunsplit(scheme, netloc, path) ==
    LET p  == IF netloc # <<>> /\ path # <<>> /\ path[1] # "/"
              THEN <<"/">> \o path ELSE path
        nl == IF netloc # <<>> THEN <<"/", "/">> \o netloc \o p ELSE p
    IN  IF scheme # <<>> THEN scheme \o <<":">> \o nl ELSE nl

(***************************************************************************)
(* SpecParser.clean_url                                                    *)
(***************************************************************************)
\* A returned string, or the exception raised instead.
Ok(s) == [ok |-> TRUE, val |-> s, exc |-> ""]
Raised(e) == [ok |-> FALSE, val |-> <<>>, exc |-> e]

\* The body of clean_url on the split URL.
CleanSplit(link) ==
    IF link.path = <<>> THEN Raised("IndexError")          \* path[-1] of ""
    ELSE Ok(link.scheme \o <<":", "/", "/">> \o Lower(link.netloc)
            \o (IF link.path[Len(link.path)] = "/"
                THEN Slice(link.path, 1, Len(link.path) - 1) ELSE link.path))

clean_url(urlstring) == CleanSplit(urlsplit(urlstring))

(***************************************************************************)
(* JSON / Python values.  A value is its Python type and, for strings and  *)
(* integers, its text.  "unicode" is StringType (type(u"")); "str" is the  *)
(* byte string of a Python 2 literal such as "".                           *)
(***************************************************************************)
Val(t, s) == [t |-> t, s |-> s]
None == Val("null", <<>>)
Uni(s) == Val("unicode", s)

\* bool(v) is False
Falsy(v) ==
    \/ v.t = "null"
    \/ v.t \in {"unicode", "str", "list", "dict"} /\ v.s = <<>>
    \/ v.t = "int" /\ v.s = <<"0">>

\* entry.get(name, None)
Get(m, name) == IF name \in DOMAIN m THEN m[name] ELSE None

W3C == <<"W", "3", "C">>
IETF == <<"I", "E", "T", "F">>
Ecma == <<"E", "c", "m", "a">>
Other == <<"O", "t", "h", "e", "r">>
WHATWG == <<"W", "H", "A", "T", "W", "G">>

under_consideration ==
    <<"u","n","d","e","r"," ","c","o","n","s","i","d","e","r","a","t","i","o","n">>
participating == <<"p","a","r","t","i","c","i","p","a","t","i","n","g">>
defer == <<"d", "e", "f", "e", "r">>
harmful == <<"h", "a", "r", "m", "f", "u", "l">>

(***************************************************************************)
(* ActivitiesJson.expected_entry_items: (name, required?, type)            *)
(***************************************************************************)
Item(name, required, type, allowed) ==
    [name |-> name, required |-> required, type |-> type, allowed |-> allowed]

expected_entry_items ==
    << Item("cui_name", FALSE, "StringType", {}),
       Item("title", TRUE, "StringType", {}),
       Item("description", TRUE, "StringType", {}),
       Item("ciuName", FALSE, "StringType", {}),
       Item("org", TRUE, "list", {W3C, IETF, Ecma, Other}),
       Item("group", FALSE, "StringType", {}),
       Item("url", TRUE, "UrlType", {}),
       Item("mozBugUrl", FALSE, "UrlType", {}),
       Item("mozPositionIssue", FALSE, "int", {}),
       Item("mozPosition", TRUE, "list",
            {under_consideration, participating, defer, harmful}),
       Item("mozPositionDetail", FALSE, "StringType", {}) >>

ItemNames == {expected_entry_items[i].name : i \in 1..Len(expected_entry_items)}

\* isinstance(v, StringType)
IsStringType(v) == v.t = "unicode"

\* isinstance(v, int): bool is a subclass of int
IsInt(v) == v.t \in {"int", "bool"}

(***************************************************************************)
(* ActivitiesJson.validate_entry                                           *)
(***************************************************************************)
Err(msg, title, name, extras) ==
    [msg |-> msg, title |-> title, name |-> name, extras |-> extras]

EntryLabel == Val("str", <<"E", "n", "t", "r", "y">>)

\* A bug the required-member test could have: `required and` left out.
IsMissing_AnyMember(it, entry_value) == entry_value = None

\* required and entry_value is None
IsMissing(it, entry_value) == it.required /\ entry_value = None

\* What one pass of the loop body appends for the schema item `it`.
ItemErrors(m, title, it) ==
    LET entry_value == Get(m, it.name)
        typed ==
            IF IsMissing(it, entry_value)
            THEN <<Err("doesn't have required member", title, it.name, {})>>
            ELSE IF entry_value = None THEN <<>>
            ELSE IF it.type = "UrlType"
            THEN IF ~IsStringType(entry_value)
                 THEN <<Err("isn't a URL string", title, it.name, {})>>
                 ELSE <<>>
            ELSE IF it.type = "StringType"
            THEN IF ~IsStringType(entry_value)
                 THEN <<Err("isn't a", title, it.name, {})>>
                 ELSE <<>>
            ELSE IF it.type = "int"
            THEN IF ~IsInt(entry_value)
                 THEN <<Err("isn't a", title, it.name, {})>>
                 ELSE <<>>
            ELSE IF ~(entry_value.t \in {"unicode", "str"} /\ entry_value.s \in it.allowed)
                 THEN <<Err("isn't one of", title, it.name, {})>>
                 ELSE <<>>
        extra_items == DOMAIN m \ ItemNames
        extra ==
            IF extra_items # {}
            THEN <<Err("includes unrecoginsed members", title, "", extra_items)>>
            ELSE <<>>
    IN  typed \o extra

RECURSIVE LoopErrors(_, _, _)
LoopErrors(m, title, i) ==
    IF i > Len(expected_entry_items) THEN <<>>
    ELSE ItemErrors(m, title, expected_entry_items[i]) \o LoopErrors(m, title, i + 1)

\* validate_entry(entry, title): the list of errors
validate_entry(m, title) ==
    LoopErrors(m, IF Falsy(title) THEN EntryLabel ELSE title, 1)

(***************************************************************************)
(* ActivitiesJson.validate                                                 *)
(***************************************************************************)
\* A top-level value: a list of items or not; an item: a dictionary or not.
Dict(m) == [isdict |-> TRUE, m |-> m]
NotADict == [isdict |-> FALSE, m |-> <<>>]
List(items) == [islist |-> TRUE, items |-> items]
NotAList == [islist |-> FALSE, items |-> <<>>]

Returned(errors) == [raised |-> FALSE, exc |-> "", errors |-> errors]
Threw(exc) == [raised |-> TRUE, exc |-> exc, errors |-> <<>>]

DigitOf(i) == <<"0","1","2","3","4","5","6","7","8","9">>[i + 1]

\* "entry %i" % i
EntryNumber(i) == Val("str", <<"e", "n", "t", "r", "y", " ", DigitOf(i)>>)

\* The loop from entry i on, with the errors collected so far.  For an entry
\* that is not a dictionary the error is appended and then entry.get raises.
RECURSIVE ValidateFrom(_, _, _)
ValidateFrom(items, i, errors) ==
    IF i > Len(items) THEN Returned(errors)
    ELSE IF ~items[i].isdict
    THEN Threw("AttributeError")
    ELSE ValidateFrom(items, i + 1,
            errors \o validate_entry(items[i].m,
                IF "title" \in DOMAIN items[i].m
                THEN items[i].m["title"] ELSE EntryNumber(i)))

validate(d) ==
    IF ~d.islist
    THEN Returned(<<Err("Top-level data structure is not a list.", None, "", {})>>)
    ELSE ValidateFrom(d.items, 1, <<>>)

http == <<"h", "t", "t", "p">>
https == <<"h", "t", "t", "p", "s">>

(***************************************************************************)
(* Host names and path words the parsers compare against                   *)
(***************************************************************************)
www_w3_org == <<"w","w","w",".","w","3",".","o","r","g">>
w3c_github_io == <<"w","3","c",".","g","i","t","h","u","b",".","i","o">>
wicg_github_io == <<"w","i","c","g",".","g","i","t","h","u","b",".","i","o">>
dev_w3_org == <<"d","e","v",".","w","3",".","o","r","g">>
dvcs_w3_org == <<"d","v","c","s",".","w","3",".","o","r","g">>
drafts_csswg_org == <<"d","r","a","f","t","s",".","c","s","s","w","g",".","o","r","g">>
w3ctag_github_io == <<"w","3","c","t","a","g",".","g","i","t","h","u","b",".","i","o">>
datatracker_ietf_org == <<"d","a","t","a","t","r","a","c","k","e","r",".","i","e","t","f",".","o","r","g">>
www_ietf_org == <<"w","w","w",".","i","e","t","f",".","o","r","g">>
tools_ietf_org == <<"t","o","o","l","s",".","i","e","t","f",".","o","r","g">>
http2_github_io == <<"h","t","t","p","2",".","g","i","t","h","u","b",".","i","o">>
httpwg_github_io == <<"h","t","t","p","w","g",".","g","i","t","h","u","b",".","i","o">>
httpwg_org == <<"h","t","t","p","w","g",".","o","r","g">>
spec_whatwg_org_suffix == <<".","s","p","e","c",".","w","h","a","t","w","g",".","o","r","g">>
html == <<"h","t","m","l">>
id == <<"i","d">>
pdf == <<"p","d","f">>
doc == <<"d","o","c">>
rfc == <<"r","f","c">>
urn_ietf_rfc == <<"u","r","n",":","i","e","t","f",":","r","f","c">>

\* Map of URL hostnames to org-specific parsers.
URL2ORG ==
    (www_w3_org :> "W3CParser") @@ (w3c_github_io :> "W3CParser")
    @@ (wicg_github_io :> "W3CParser") @@ (dev_w3_org :> "W3CParser")
    @@ (dvcs_w3_org :> "W3CParser") @@ (drafts_csswg_org :> "W3CParser")
    @@ (w3ctag_github_io :> "W3CParser")
    @@ (datatracker_ietf_org :> "IETFParser") @@ (www_ietf_org :> "IETFParser")
    @@ (tools_ietf_org :> "IETFParser") @@ (http2_github_io :> "IETFParser")
    @@ (httpwg_github_io :> "IETFParser") @@ (httpwg_org :> "IETFParser")

\* The org attribute of each parser class.
OrgOf(p) ==
    IF p = "W3CParser" THEN W3C ELSE IF p = "WHATWGParser" THEN WHATWG ELSE IETF

(***************************************************************************)
(* What a parse ends with: a dictionary returned, or BetterUrl, FetchError, *)
(* another exception, or sys.exit(1).                                      *)
(***************************************************************************)
NoData == [title |-> None, description |-> None, org |-> None, url |-> None]

Outcome(kind, target, d, exc) == [kind |-> kind, url |-> target, data |-> d, exc |-> exc]
BetterUrl(target) == Outcome("BetterUrl", target, NoData, "")
FetchError == Outcome("FetchError", <<>>, NoData, "")
Record(d) == Outcome("Record", <<>>, d, "")
Crash(exc) == Outcome("Crash", <<>>, NoData, exc)
Exit(why) == Outcome("Exit", <<>>, NoData, why)
NoOutcome == Outcome("", <<>>, NoData, "")       \* parse not called yet

\* A tag's attribute or string: there or not.
Has(s) == [has |-> TRUE, s |-> s]
Hasnt == [has |-> FALSE, s |-> <<>>]

\* s.replace("\n", " ")
ReplaceNewlines(s) == [i \in 1..Len(s) |-> IF s[i] = "\n" THEN " " ELSE s[i]]

(***************************************************************************)
(* IETFParser                                                              *)
(***************************************************************************)
\* get_meta(spec, names): the content of the first <meta> of `names` in the head
RECURSIVE get_meta(_, _)
get_meta(spec, names) ==
    IF names = <<>> THEN Hasnt
    ELSE IF spec.meta[names[1]].has THEN Has(ReplaceNewlines(spec.meta[names[1]].s))
    ELSE get_meta(spec, Tail(names))

\* The body of parse_draft_name, given instr.rsplit("-", 1).
DraftOf(instr, bits) ==
    IF Len(bits) = 2 /\ IsDigit(bits[2]) /\ Len(bits[2]) = 2
    THEN [name |-> bits[1], number |-> Has(bits[2])]
    ELSE [name |-> instr, number |-> Hasnt]

\* parse_draft_name(instr): the draft name and its two-digit number, if any
parse_draft_name(instr) == DraftOf(instr, RSplit1(instr, "-"))

\* html_url(doc_name): the canonical URL for a document name
html_url(doc_name) == urlunsplit(https, tools_ietf_org, html \o <<"/">> \o doc_name)

\* The tail of IETFParser.parse: the dictionary read from the document.
IETFData(spec, dc_title, descr, cleaned) ==
    IF (~dc_title.has \/ dc_title.s = <<>>) /\ ~spec.head_title.has
    THEN Crash("AttributeError")              \* spec.head.title is None
    ELSE IF ~cleaned.ok THEN Crash(cleaned.exc)
    ELSE Record([title |-> IF dc_title.has /\ dc_title.s # <<>>
                           THEN Uni(dc_title.s) ELSE spec.head_title.s,
                 description |-> IF descr.has /\ descr.s # <<>>
                                 THEN Uni(descr.s) ELSE Val("str", <<>>),
                 org |-> Uni(IETF),
                 url |-> Uni(cleaned.val)])

IETFExtract(spec, url_string) ==
    IETFData(spec,
             get_meta(spec, <<"DC.Title">>),
             get_meta(spec, <<"description", "dcterms.abstract",
                              "DC.Description.Abstract">>),
             clean_url(url_string))

\* The tools.ietf.org/html branch, given the DC.Identifier meta and the draft
\* name parsed from the last path component.
IETFHtmlBranch(spec, url_string, identifier, draft) ==
    IF ~identifier.has THEN Crash("AttributeError")   \* None.lower()
    ELSE IF /\ StartsWith(Lower(identifier.s), urn_ietf_rfc)
            /\ clean_url(url_string)
                  # clean_url(html_url(rfc \o RSplit1(identifier.s, ":")[2]))
    THEN BetterUrl(html_url(rfc \o RSplit1(identifier.s, ":")[2]))
    ELSE IF draft.number.has THEN BetterUrl(html_url(draft.name))
    ELSE IETFExtract(spec, url_string)

IETFHtml(spec, url_string, path_components) ==
    IETFHtmlBranch(spec, url_string,
                   get_meta(spec, <<"DC.Identifier">>),
                   parse_draft_name(path_components[Len(path_components)]))

\* The if/elif chain of IETFParser.parse over the host and the path components.
IETFBranch(spec, url_string, host, path_components, n) ==
    IF host = tools_ietf_org
    THEN IF n < 2 THEN Crash("IndexError")
         ELSE IF path_components[2] = html
         THEN IETFHtml(spec, url_string, path_components)
         ELSE IF path_components[2] \in {id, pdf}
         THEN IF n < 3 THEN Crash("IndexError")
              ELSE BetterUrl(html_url(path_components[3]))
         ELSE FetchError
    ELSE IF host = www_ietf_org /\ n < 2 THEN Crash("IndexError")
    ELSE IF host = www_ietf_org /\ path_components[2] = id
    THEN IF n < 3 THEN Crash("IndexError")
         ELSE BetterUrl(html_url(
                 parse_draft_name(RSplit1(path_components[3], ".")[1]).name))
    ELSE IF host = datatracker_ietf_org
    THEN IF n < 2 THEN Crash("IndexError")
         ELSE IF path_components[2] = doc
         THEN IF n < 3 THEN Crash("IndexError")
              ELSE BetterUrl(html_url(path_components[3]))
         ELSE FetchError
    ELSE IETFExtract(spec, url_string)

\* url.path.split("/"), without a trailing empty component
PathComponents(split) ==
    IF split[Len(split)] = <<>> THEN Slice(split, 1, Len(split) - 1) ELSE split

IETFSplit(spec, url_string, link, path_components) ==
    IETFBranch(spec, url_string, Lower(link.netloc), path_components,
               Len(path_components))

IETFLink(spec, url_string, link) ==
    IETFSplit(spec, url_string, link, PathComponents(Split(link.path, "/")))

IETFParser_parse(spec, url_string) == IETFLink(spec, url_string, urlsplit(url_string))

(***************************************************************************)
(* W3CParser (and WHATWGParser, which differs in org only)                 *)
(***************************************************************************)
\* get_link: None when the metadata block has no such entry, else the
\* canonicalised text of its link.  A link that holds no plain string gives
\* clean_url a None to split.
NoLink == [kind |-> "None", s |-> <<>>, exc |-> ""]

LinkResult(c) ==
    IF c.ok THEN [kind |-> "url", s |-> c.val, exc |-> ""]
    ELSE [kind |-> "raise", s |-> <<>>, exc |-> c.exc]

get_link(link) ==
    IF link.kind = "absent" THEN NoLink
    ELSE IF link.kind = "nostring" THEN [kind |-> "raise", s |-> <<>>, exc |-> "AttributeError"]
    ELSE LinkResult(clean_url(link.s))

\* refresh[0].get('content').split(";", 1)[1].split("=", 1)[1].strip()
AfterEquals(b) == IF Len(b) < 2 THEN Raised("IndexError") ELSE Ok(Strip(b[2]))

AfterSemicolon(a) ==
    IF Len(a) < 2 THEN Raised("IndexError") ELSE AfterEquals(Split1(a[2], "="))

RefreshTarget(content) == AfterSemicolon(Split1(content, ";"))

\* A bug the preference order could have: the latest version tried before the
\* editor's draft.
W3CChoice_LatestFirst(this_url, latest_url, ed_url) ==
    IF latest_url.kind = "url" /\ latest_url # this_url THEN "latest"
    ELSE IF ed_url.kind = "url" /\ ed_url # this_url THEN "ed"
    ELSE IF this_url.kind = "url" THEN "this"
    ELSE "input"

\* The if/elif chain of W3CParser.parse: which URL is taken.
W3CChoice(this_url, latest_url, ed_url) ==
    IF ed_url.kind = "url" /\ ed_url # this_url THEN "ed"
    ELSE IF latest_url.kind = "url" /\ latest_url # this_url THEN "latest"
    ELSE IF this_url.kind = "url" THEN "this"
    ELSE "input"

\* W3CParser.parse, given the refresh target, the three links, the choice
\* among them and the canonicalised input URL.
W3CDecide(org, spec, target, this_url, latest_url, ed_url, choice, cleaned) ==
    IF spec.refresh.has
    THEN IF target.ok THEN BetterUrl(target.val) ELSE Crash(target.exc)
    ELSE IF this_url.kind = "raise" THEN Crash(this_url.exc)
    ELSE IF latest_url.kind = "raise" THEN Crash(latest_url.exc)
    ELSE IF ed_url.kind = "raise" THEN Crash(ed_url.exc)
    ELSE IF choice = "ed" THEN BetterUrl(ed_url.s)
    ELSE IF choice = "latest" THEN BetterUrl(latest_url.s)
    ELSE IF choice = "input" /\ ~cleaned.ok THEN Crash(cleaned.exc)
    ELSE IF ~spec.h1.has THEN Exit("Can't find the specification's title.")
    ELSE IF ~spec.abstract.has THEN Exit("Can't find the specification's description.")
    ELSE Record([title |-> spec.h1.s,
                 description |-> spec.abstract.s,
                 org |-> Uni(org),
                 url |-> Uni(IF choice = "this" THEN this_url.s ELSE cleaned.val)])

W3CLinks(org, spec, url_string, this_url, latest_url, ed_url) ==
    W3CDecide(org, spec, RefreshTarget(spec.refresh.s), this_url, latest_url, ed_url,
              W3CChoice(this_url, latest_url, ed_url), clean_url(url_string))

W3CParser_parse(org, spec, url_string) ==
    W3CLinks(org, spec, url_string,
             get_link(spec.this), get_link(spec.latest), get_link(spec.ed))

\* self.parser().parse(soup, url)
Parse(p, spec, url_string) ==
    IF p = "IETFParser" THEN IETFParser_parse(spec, url_string)
    ELSE W3CParser_parse(OrgOf(p), spec, url_string)


(***************************************************************************)
(* Inputs of the validator                                                 *)
(***************************************************************************)
MaxOptional == 2    \* optional members a generated entry carries
MaxData == 2        \* entries of a generated dataset

RequiredNames == {"title", "description", "org", "url", "mozPosition"}
OptionalNames == ItemNames \ RequiredNames

ItemOf(name) ==
    expected_entry_items[CHOOSE i \in 1..Len(expected_entry_items) :
                            expected_entry_items[i].name = name]

Unicode7 == Uni(<<"7">>)
Int7 == Val("int", <<"7">>)
TitleA == Uni(<<"a">>)
DescD == Uni(<<"D">>)
UrlX == Uni(<<"h", "t", "t", "p", ":", "/", "/", "w", ".", "o", "/", "x">>)

\* Values of the member's type.
GoodValues(name) ==
    LET it == ItemOf(name)
    IN  IF it.type = "list" THEN {Uni(a) : a \in it.allowed}
        ELSE IF it.type = "int" THEN {Int7}
        ELSE IF it.type = "UrlType" THEN {UrlX}
        ELSE IF name = "title" THEN {TitleA}
        ELSE {DescD}

\* Values that are not of the member's type.
BadValues(name) ==
    LET it == ItemOf(name)
    IN  IF it.type = "list" THEN {Uni(WHATWG), Val("list", <<>>)}
        ELSE IF it.type = "int" THEN {Unicode7}
        ELSE {Int7, Val("str", <<"a">>)}

Without(m, name) == [n \in DOMAIN m \ {name} |-> m[n]]
With(m, name, v) == [n \in DOMAIN m \cup {name} |-> IF n = name THEN v ELSE m[n]]

\* Entries with every required member and at most MaxOptional optional ones,
\* each of its type.
GoodEntries ==
    { [n \in RequiredNames \cup S |->
          IF n = "org" THEN o ELSE IF n = "mozPosition" THEN p
          ELSE CHOOSE v \in GoodValues(n) : TRUE]
      : o \in GoodValues("org"), p \in GoodValues("mozPosition"),
        S \in {T \in SUBSET OptionalNames : Cardinality(T) <= MaxOptional} }

EntryInputs ==
    GoodEntries
    \cup {Without(m, n) : m \in GoodEntries, n \in RequiredNames}
    \cup {With(m, n, None) : m \in GoodEntries, n \in ItemNames}
    \cup UNION {{With(m, n, v) : v \in BadValues(n)} : m \in GoodEntries, n \in ItemNames}
    \cup {With(m, "status", TitleA) : m \in GoodEntries}
    \cup {With(Without(m, n), "status", None) : m \in GoodEntries, n \in RequiredNames}

TitleInputs == {None, Uni(<<"t">>)}

SampleEntry ==
    [title |-> TitleA, description |-> DescD, org |-> Uni(W3C), url |-> UrlX,
     mozPosition |-> Uni(defer)]

ItemInputs ==
    {Dict(SampleEntry), Dict(Without(SampleEntry, "url")),
     Dict(With(SampleEntry, "title", None)), NotADict}

SeqsUpTo(S, n) == UNION {[1..k -> S] : k \in 0..n}

DataInputs == {NotAList} \cup {List(items) : items \in SeqsUpTo(ItemInputs, MaxData)}

(***************************************************************************)
(* Specification: the validator applied to generated inputs                *)
(***************************************************************************)
InitValidate ==
    /\ \/ pc = "validate_entry" /\ entry \in EntryInputs /\ data = Unused
       \/ pc = "validate" /\ entry = Unused /\ data \in DataInputs
    /\ result = Unused
    /\ u = Unused /\ once = Unused /\ twice = Unused
    /\ orig_url = Unused /\ parser = Unused /\ url = Unused /\ soup = Unused
    /\ outcome = Unused /\ redirected = Unused /\ error = Unused /\ ENTRY = Unused
    /\ fetched = Unused /\ refetched = Unused /\ file = Unused /\ filed = Unused

ValidateEntry ==
    /\ pc = "validate_entry"
    /\ \E title \in TitleInputs : result' = Returned(validate_entry(entry, title))
    /\ pc' = "validate_entry_done"
    /\ UNCHANGED <<urlVars, fetchVars, addVars, entry, data>>

Validate ==
    /\ pc = "validate"
    /\ result' = validate(data)
    /\ pc' = "validate_done"
    /\ UNCHANGED <<urlVars, fetchVars, addVars, entry, data>>

NextValidate == ValidateEntry \/ Validate

SpecValidate == InitValidate /\ [][NextValidate]_vars

(***************************************************************************)
(* Specification: clean_url applied once and twice to generated URLs       *)
(***************************************************************************)
MaxPathLen == 4     \* characters of a generated path

PathInputs ==
    {p \in SeqsUpTo({"/", "a"}, MaxPathLen) : p = <<>> \/ p[1] = "/"}

HostInputs == {<<"w", ".", "o">>, <<"W", ".", "O">>}

UrlInputs ==
    {s \o <<":", "/", "/">> \o h \o p :
        s \in {http, https}, h \in HostInputs, p \in PathInputs}

InitUrl ==
    /\ pc = "clean_url"
    /\ u \in UrlInputs
    /\ once = Unused /\ twice = Unused
    /\ entry = Unused /\ data = Unused /\ result = Unused
    /\ orig_url = Unused /\ parser = Unused /\ url = Unused /\ soup = Unused
    /\ outcome = Unused /\ redirected = Unused /\ error = Unused /\ ENTRY = Unused
    /\ fetched = Unused /\ refetched = Unused /\ file = Unused /\ filed = Unused

CleanOnce ==
    /\ pc = "clean_url"
    /\ once' = clean_url(u)
    /\ pc' = "cleaned_once"
    /\ UNCHANGED <<validateVars, fetchVars, addVars, u, twice>>

CleanTwice ==
    /\ pc = "cleaned_once"
    /\ once.ok
    /\ twice' = clean_url(once.val)
    /\ pc' = "cleaned_twice"
    /\ UNCHANGED <<validateVars, fetchVars, addVars, u, once>>

NextUrl == CleanOnce \/ CleanTwice

SpecUrl == InitUrl /\ [][NextUrl]_vars

(***************************************************************************)
(* The URLs given on the command line and the documents the web serves     *)
(***************************************************************************)
U_html_rev2 == <<"h","t","t","p","s",":","/","/","t","o","o","l","s",".","i","e","t","f",".","o","r","g","/","h","t","m","l","/","d","-","a","-","0","3">>
U_html_rev1 == <<"h","t","t","p","s",":","/","/","t","o","o","l","s",".","i","e","t","f",".","o","r","g","/","h","t","m","l","/","d","-","a","-","3">>
U_html_rev3 == <<"h","t","t","p","s",":","/","/","t","o","o","l","s",".","i","e","t","f",".","o","r","g","/","h","t","m","l","/","d","-","a","-","1","2","3">>
U_html_draft == <<"h","t","t","p","s",":","/","/","t","o","o","l","s",".","i","e","t","f",".","o","r","g","/","h","t","m","l","/","d","-","a">>
U_html_rfc == <<"h","t","t","p","s",":","/","/","t","o","o","l","s",".","i","e","t","f",".","o","r","g","/","h","t","m","l","/","r","f","c","1">>
U_id_rev2 == <<"h","t","t","p","s",":","/","/","t","o","o","l","s",".","i","e","t","f",".","o","r","g","/","i","d","/","d","-","a","-","0","3">>
U_pdf == <<"h","t","t","p","s",":","/","/","T","o","o","l","s",".","I","E","T","F",".","o","r","g","/","p","d","f","/","d","-","a">>
U_tools_wg == <<"h","t","t","p","s",":","/","/","t","o","o","l","s",".","i","e","t","f",".","o","r","g","/","w","g","/","x">>
U_tools_root == <<"h","t","t","p","s",":","/","/","t","o","o","l","s",".","i","e","t","f",".","o","r","g">>
U_www_id == <<"h","t","t","p","s",":","/","/","w","w","w",".","i","e","t","f",".","o","r","g","/","i","d","/","d","-","a","-","0","3",".","t","x","t">>
U_www_rfc == <<"h","t","t","p","s",":","/","/","w","w","w",".","i","e","t","f",".","o","r","g","/","r","f","c","/","x">>
U_dt_doc == <<"h","t","t","p","s",":","/","/","d","a","t","a","t","r","a","c","k","e","r",".","i","e","t","f",".","o","r","g","/","d","o","c","/","d","-","a","/">>
U_dt_wg == <<"h","t","t","p","s",":","/","/","d","a","t","a","t","r","a","c","k","e","r",".","i","e","t","f",".","o","r","g","/","w","g","/","x">>
U_httpwg == <<"h","t","t","p","s",":","/","/","h","t","t","p","w","g",".","o","r","g","/","s","p","e","c","s","/","x">>
U_w3_tr == <<"h","t","t","p","s",":","/","/","w","w","w",".","w","3",".","o","r","g","/","T","R","/","a","/">>
U_w3c_gh == <<"h","t","t","p","s",":","/","/","w","3","c",".","g","i","t","h","u","b",".","i","o","/","a">>
U_w3_root == <<"h","t","t","p","s",":","/","/","w","w","w",".","w","3",".","o","r","g">>
U_whatwg == <<"h","t","t","p","s",":","/","/","h","t","m","l",".","s","p","e","c",".","w","h","a","t","w","g",".","o","r","g","/">>
U_unknown == <<"h","t","t","p","s",":","/","/","e","x","a","m","p","l","e",".","c","o","m","/","x">>

StartUrls ==
    {U_html_rev2, U_html_rev1, U_html_rev3, U_html_draft, U_html_rfc,
     U_id_rev2, U_pdf, U_tools_wg, U_tools_root, U_www_id,
     U_www_rfc, U_dt_doc, U_dt_wg, U_httpwg, U_w3_tr,
     U_w3c_gh, U_w3_root, U_whatwg, U_unknown}

TitleT == Uni(<<"T">>)

\* Links of a W3C metadata block: absent, holding no plain string, or a URL.
LinkInputs ==
    {[kind |-> "absent", s |-> <<>>], [kind |-> "nostring", s |-> <<>>]}
    \cup {[kind |-> "link", s |-> l] : l \in {U_w3_tr, U_w3c_gh, U_w3_root}}

\* content of <meta http-equiv="Refresh">: none, "0; url=<URL>", and "5"
RefreshPrefix == <<"0", ";", " ", "u", "r", "l", "=">>

RefreshInputs == {Hasnt, Has(RefreshPrefix \o U_w3c_gh), Has(<<"5">>)}

NoMetas ==
    [n \in {"DC.Identifier", "DC.Title", "description", "dcterms.abstract",
            "DC.Description.Abstract"} |-> Hasnt]

\* Documents as W3CParser reads them.
W3CDocs ==
    {[refresh |-> r, this |-> t, latest |-> l, ed |-> e, h1 |-> h, abstract |-> a,
      meta |-> NoMetas, head_title |-> Hasnt] :
        r \in RefreshInputs, t \in LinkInputs, l \in LinkInputs, e \in LinkInputs,
        h \in {Hasnt, Has(TitleT)}, a \in {Hasnt, Has(DescD)}}

IdentifierInputs ==
    {Hasnt,
     Has(<<"u","r","n",":","i","e","t","f",":","r","f","c",":","1">>),
     Has(<<"u","r","n",":","i","e","t","f",":","i","d",":","d","-","a">>)}

\* Documents as IETFParser reads them.
IETFDocs ==
    {[refresh |-> Hasnt, this |-> NoLink, latest |-> NoLink, ed |-> NoLink,
      h1 |-> Hasnt, abstract |-> Hasnt,
      meta |-> [n \in DOMAIN NoMetas |->
                   IF n = "DC.Identifier" THEN i
                   ELSE IF n = "DC.Title" THEN t
                   ELSE IF n = "description" THEN d1
                   ELSE IF n = "dcterms.abstract" THEN d2 ELSE d3],
      head_title |-> h] :
        i \in IdentifierInputs, t \in {Hasnt, Has(<<"T">>)},
        d1 \in {Hasnt, Has(<<"D">>)}, d2 \in {Hasnt, Has(<<"E", "\n", "F">>)},
        d3 \in {Hasnt, Has(<<"G">>)}, h \in {Hasnt, Has(TitleT)}}

\* Each parser reads its own part of a document only.
DocsFor(p) == IF p = "IETFParser" THEN IETFDocs ELSE W3CDocs

(***************************************************************************)
(* SpecEntry.__init__: figure_out_org, then fetch_spec_data.  The          *)
(* recursive call of fetch_spec_data returns its callee's result or lets   *)
(* its exception through unchanged, so the recursion is the loop           *)
(* fetch -> parse -> handle -> fetch.                                      *)
(***************************************************************************)
\* self.data as the constructor sets it
InitialEntry ==
    [title |-> None, description |-> None, ciuName |-> None, org |-> None,
     url |-> None, mozBugUrl |-> None, mozPositionIssue |-> None,
     mozPosition |-> Uni(under_consideration), mozPositionDetail |-> None]

\* self.data.update(**new_entry)
Update(d, new_entry) ==
    [n \in DOMAIN d \cup DOMAIN new_entry |->
        IF n \in DOMAIN new_entry THEN new_entry[n] ELSE d[n]]

\* figure_out_org: the parser for a host, or "" when the organisation is unknown
figure_out_org(spec_url) ==
    LET host == Lower(urlsplit(spec_url).netloc)
    IN  IF host \in DOMAIN URL2ORG THEN URL2ORG[host]
        ELSE IF EndsWith(host, spec_whatwg_org_suffix) THEN "WHATWGParser"
        ELSE ""

Terminal == {"done", "exit", "crash"}

InitFetch ==
    /\ pc = "figure_out_org"
    /\ orig_url \in StartUrls
    /\ url = orig_url
    /\ parser = "" /\ soup = Unused /\ outcome = NoOutcome
    /\ redirected = FALSE /\ error = ""
    /\ fetched = {} /\ refetched = FALSE
    /\ ENTRY = InitialEntry
    /\ u = Unused /\ once = Unused /\ twice = Unused
    /\ entry = Unused /\ data = Unused /\ result = Unused
    /\ file = Unused /\ filed = Unused

FigureOutOrg ==
    /\ pc = "figure_out_org"
    /\ parser' = figure_out_org(orig_url)
    /\ IF parser' = ""
       THEN pc' = "exit" /\ error' = "Can't figure out what organisation"
       ELSE pc' = "fetch" /\ error' = error
    /\ UNCHANGED <<urlVars, validateVars, addVars, orig_url, url, soup, outcome, redirected,
                   fetched, refetched, ENTRY>>

\* requests.get(url): a status other than 200 raises FetchError, which no
\* handler of fetch_spec_data catches there; __init__ exits on it.
FetchFails ==
    /\ pc = "fetch"
    /\ pc' = "exit"
    /\ error' = "HTTP status"
    /\ UNCHANGED <<urlVars, validateVars, addVars, orig_url, parser, url, soup, outcome,
                   redirected, fetched, refetched, ENTRY>>

FetchOk ==
    /\ pc = "fetch"
    /\ soup' \in DocsFor(parser)
    /\ pc' = "parse"
    /\ fetched' = fetched \cup {url}
    /\ refetched' = (refetched \/ url \in fetched)
    /\ UNCHANGED <<urlVars, validateVars, addVars, orig_url, parser, url, outcome,
                   redirected, error, ENTRY>>

\* spec_data = self.parser().parse(soup, url)
ParseStep ==
    /\ pc = "parse"
    /\ outcome' = Parse(parser, soup, url)
    /\ pc' = "handle"
    /\ UNCHANGED <<urlVars, validateVars, addVars, orig_url, parser, url, soup,
                   redirected, error, fetched, refetched, ENTRY>>

\* except BetterUrl: spec_data = self.fetch_spec_data(new_url)
HandleBetterUrl ==
    /\ pc = "handle"
    /\ outcome.kind = "BetterUrl"
    /\ url' = outcome.url
    /\ redirected' = TRUE
    /\ pc' = "fetch"
    /\ UNCHANGED <<urlVars, validateVars, addVars, orig_url, parser, soup, outcome, error,
                   fetched, refetched, ENTRY>>

\* except FetchError: "Falling back."; then return spec_data, which was never
\* bound: UnboundLocalError.
HandleFetchError ==
    /\ pc = "handle"
    /\ outcome.kind = "FetchError"
    /\ pc' = "crash"
    /\ error' = "UnboundLocalError"
    /\ UNCHANGED <<urlVars, validateVars, addVars, orig_url, parser, url, soup, outcome,
                   redirected, fetched, refetched, ENTRY>>

\* return spec_data; self.data.update(**new_entry)
HandleRecord ==
    /\ pc = "handle"
    /\ outcome.kind = "Record"
    /\ ENTRY' = Update(ENTRY, outcome.data)
    /\ pc' = "done"
    /\ UNCHANGED <<urlVars, validateVars, addVars, orig_url, parser, url, soup, outcome,
                   redirected, error,
                   fetched, refetched>>

\* Any other exception of parse, and sys.exit(1) in it, end the run.
HandleAbort ==
    /\ pc = "handle"
    /\ outcome.kind \in {"Crash", "Exit"}
    /\ pc' = IF outcome.kind = "Crash" THEN "crash" ELSE "exit"
    /\ error' = outcome.exc
    /\ UNCHANGED <<urlVars, validateVars, addVars, orig_url, parser, url, soup, outcome,
                   redirected, fetched, refetched, ENTRY>>

NextFetch ==
    \/ FigureOutOrg
    \/ FetchFails
    \/ FetchOk
    \/ ParseStep
    \/ HandleBetterUrl
    \/ HandleFetchError
    \/ HandleRecord
    \/ HandleAbort

SpecFetch == InitFetch /\ [][NextFetch]_vars


(***************************************************************************)
(* ActivitiesJson.entry_unique                                             *)
(***************************************************************************)
\* A bug the title comparison could have: the case kept.
TitleKey_CaseKept(s) == Strip(s)

\* title.lower().strip()
TitleKey(s) == Strip(Lower(s))

\* entry_unique(spec_entry): "" when it returns, else the exception raised.
\* A title of None has no lower().
entry_unique(items, e) ==
    IF e["title"].t \notin {"unicode", "str"} THEN "AttributeError"
    ELSE IF \E i \in 1..Len(items) : TitleKey(items[i].m["title"].s) = TitleKey(e["title"].s)
    THEN "ValueError"
    ELSE IF \E i \in 1..Len(items) : items[i].m["url"] = e["url"]
    THEN "ValueError"
    ELSE ""

(***************************************************************************)
(* The add verb, run after run on the same activities.json                 *)
(***************************************************************************)
UrlY == Uni(<<"h", "t", "t", "p", ":", "/", "/", "w", ".", "o", "/", "y">>)

\* Titles a parser can return: None is the string of a heading with markup in it.
AddTitles == {TitleA, Uni(<<" ", "A">>), Uni(<<"b">>), None}

\* Descriptions a parser can return: the abstract, or the "" of IETFParser
\* when no meta has one.
AddDescriptions == {DescD, Val("str", <<>>)}

UrlZ == Uni(<<"h", "t", "t", "p", ":", "/", "/", "w", ".", "o", "/", "z">>)

AddUrls == {UrlX, UrlY, UrlZ}

\* The number the tracker gives a new issue.
IssueNumber == Int7

\* What activities.json holds before the first run: nothing, one entry, or
\* one entry that lacks its org.
InitialFiles ==
    {List(<<>>),
     List(<<Dict(Update(InitialEntry, SampleEntry))>>),
     List(<<Dict(Without(SampleEntry, "org"))>>)}

RunEnded == {"end", "exit", "crash"}

InitAdd ==
    /\ pc = "load"
    /\ file \in InitialFiles
    /\ data = List(<<>>)
    /\ ENTRY = InitialEntry
    /\ filed = FALSE
    /\ error = ""
    /\ u = Unused /\ once = Unused /\ twice = Unused
    /\ entry = Unused /\ result = Unused
    /\ orig_url = Unused /\ parser = Unused /\ url = Unused /\ soup = Unused
    /\ outcome = Unused /\ redirected = Unused /\ fetched = Unused /\ refetched = Unused

\* ACTIVITIES = ActivitiesJson("activities.json"); ERRORS = ACTIVITIES.validate()
LoadAndValidate ==
    /\ pc = "load"
    /\ data' = file
    /\ IF validate(file).raised
       THEN pc' = "crash" /\ error' = validate(file).exc
       ELSE IF validate(file).errors # <<>>
       THEN pc' = "exit" /\ error' = "invalid dataset"
       ELSE pc' = "spec_entry" /\ error' = error
    /\ UNCHANGED <<u, once, twice, entry, result, orig_url, parser, url, soup, outcome,
                   redirected, fetched, refetched, ENTRY, file, filed>>

\* ENTRY = SpecEntry(SPEC_URL), when the constructor exits or raises.
SpecEntryFails ==
    /\ pc = "spec_entry"
    /\ \E how \in {"exit", "crash"} : pc' = how
    /\ error' = "SpecEntry"
    /\ UNCHANGED <<u, once, twice, entry, data, result, orig_url, parser, url, soup,
                   outcome, redirected, fetched, refetched, ENTRY, file, filed>>

\* ENTRY = SpecEntry(SPEC_URL), when fetch_spec_data returns a dictionary: its
\* org is the org of the parser figure_out_org chose.
SpecEntryReturns ==
    /\ pc = "spec_entry"
    /\ \E p \in {"W3CParser", "WHATWGParser", "IETFParser"},
          t \in AddTitles, d \in AddDescriptions, x \in AddUrls :
          /\ (d.t = "str" => p = "IETFParser")
          /\ ENTRY' = Update(InitialEntry,
                             [title |-> t, description |-> d, org |-> Uni(OrgOf(p)),
                              url |-> x])
    /\ pc' = "entry_unique"
    /\ UNCHANGED <<u, once, twice, entry, data, result, orig_url, parser, url, soup,
                   outcome, redirected, fetched, refetched, error, file, filed>>

\* ACTIVITIES.entry_unique(ENTRY); a ValueError is reported and the run exits.
EntryUnique ==
    /\ pc = "entry_unique"
    /\ error' = entry_unique(data.items, ENTRY)
    /\ pc' = IF error' = "" THEN "create_issue"
             ELSE IF error' = "ValueError" THEN "exit" ELSE "crash"
    /\ UNCHANGED <<u, once, twice, entry, data, result, orig_url, parser, url, soup,
                   outcome, redirected, fetched, refetched, ENTRY, file, filed>>

\* create_issue without GH_USER or GH_TOKEN: no issue, and the run goes on.
CreateIssueSkipped ==
    /\ pc = "create_issue"
    /\ pc' = "append"
    /\ UNCHANGED <<u, once, twice, entry, data, result, orig_url, parser, url, soup,
                   outcome, redirected, fetched, refetched, error, ENTRY, file, filed>>

\* create_issue when the tracker answers with a status other than 201.
CreateIssueFails ==
    /\ pc = "create_issue"
    /\ pc' = "exit"
    /\ error' = "Failed to create issue"
    /\ UNCHANGED <<u, once, twice, entry, data, result, orig_url, parser, url, soup,
                   outcome, redirected, fetched, refetched, ENTRY, file, filed>>

\* create_issue when the tracker answers 201: the number goes into the entry.
CreateIssueFiled ==
    /\ pc = "create_issue"
    /\ ENTRY' = [ENTRY EXCEPT !["mozPositionIssue"] = IssueNumber]
    /\ filed' = TRUE
    /\ pc' = "append"
    /\ UNCHANGED <<u, once, twice, entry, data, result, orig_url, parser, url, soup,
                   outcome, redirected, fetched, refetched, error, file>>

\* ACTIVITIES.append(ENTRY): ValueError, caught nowhere, if the entry is malformed.
AppendEntry ==
    /\ pc = "append"
    /\ IF validate_entry(ENTRY, None) # <<>>
       THEN pc' = "crash" /\ error' = "ValueError" /\ data' = data
       ELSE pc' = "save" /\ error' = error
            /\ data' = List(Append(data.items, Dict(ENTRY)))
    /\ UNCHANGED <<u, once, twice, entry, result, orig_url, parser, url, soup, outcome,
                   redirected, fetched, refetched, ENTRY, file, filed>>

\* ACTIVITIES.save(): json.dump writes unicode strings, integers and nulls, and
\* the json.load of the next run reads the same values back.
Save ==
    /\ pc = "save"
    /\ file' = data
    /\ pc' = "end"
    /\ UNCHANGED <<u, once, twice, entry, data, result, orig_url, parser, url, soup,
                   outcome, redirected, fetched, refetched, error, ENTRY, filed>>

\* The tool is run again.
NextRun ==
    /\ pc \in RunEnded
    /\ pc' = "load"
    /\ data' = List(<<>>)
    /\ ENTRY' = InitialEntry
    /\ filed' = FALSE
    /\ error' = ""
    /\ UNCHANGED <<u, once, twice, entry, result, orig_url, parser, url, soup, outcome,
                   redirected, fetched, refetched, file>>

NextAdd ==
    \/ LoadAndValidate
    \/ SpecEntryFails
    \/ SpecEntryReturns
    \/ EntryUnique
    \/ CreateIssueSkipped
    \/ CreateIssueFails
    \/ CreateIssueFiled
    \/ AppendEntry
    \/ Save
    \/ NextRun

SpecAdd == InitAdd /\ [][NextAdd]_vars


(***************************************************************************)
(* Properties of the validator                                             *)
(***************************************************************************)
\* The schema's reading of "a value of the member's kind".
OfKind(v, it) ==
    IF it.type = "list" THEN v.t = "unicode" /\ v.s \in it.allowed
    ELSE IF it.type = "int" THEN v.t = "int"
    ELSE v.t = "unicode"

\* Every required member is there with a value of its kind, every optional
\* member is absent, null or of its kind, and no member is outside the schema.
ValidRecord(m) ==
    /\ DOMAIN m \subseteq ItemNames
    /\ \A n \in ItemNames :
          LET it == ItemOf(n)
          IN  IF it.required THEN n \in DOMAIN m /\ OfKind(m[n], it)
              ELSE n \in DOMAIN m => (m[n] = None \/ OfKind(m[n], it))

\* Only the required member n is missing: giving it a value makes the record valid.
MissingOnly(m, n) ==
    /\ Get(m, n) = None
    /\ ValidRecord(With(m, n, CHOOSE v \in GoodValues(n) : TRUE))

\* C2: validate_entry returns the empty list for every valid record, and for a
\* record that is valid but for one missing required member it returns exactly
\* one error, which names that member.
ValidateEntryCorrect ==
    pc = "validate_entry_done" =>
        /\ ValidRecord(entry) => result.errors = <<>>
        /\ \A n \in RequiredNames :
              MissingOnly(entry, n) =>
                  /\ Len(result.errors) = 1
                  /\ result.errors[1].name = n
                  /\ result.errors[1].msg = "doesn't have required member"

\* C2's case: a record missing only its url was validated and one error came back.
MissingUrlReported ==
    /\ pc = "validate_entry_done"
    /\ "url" \notin DOMAIN entry
    /\ MissingOnly(entry, "url")
    /\ Len(result.errors) = 1

\* C3: validate() terminates normally for every dataset value and its errors
\* flag a top-level value that is not a list and an entry that is not a
\* dictionary.
ValidateNeverThrows ==
    pc = "validate_done" =>
        /\ ~result.raised
        /\ ~data.islist =>
              \E i \in 1..Len(result.errors) :
                  result.errors[i].msg = "Top-level data structure is not a list."
        /\ (data.islist /\ \E k \in 1..Len(data.items) : ~data.items[k].isdict) =>
              \E i \in 1..Len(result.errors) :
                  result.errors[i].msg = "is not a dictionary"

(***************************************************************************)
(* Properties of clean_url                                                 *)
(***************************************************************************)
\* C4: clean_url is idempotent: clean_url(clean_url(u)) = clean_url(u) for
\* every URL made of a scheme, a host and a path.
CleanUrlIdempotent ==
    /\ pc \in {"cleaned_once", "cleaned_twice"} => once.ok
    /\ pc = "cleaned_twice" => twice = once

(***************************************************************************)
(* Properties of the parsers and of the fetch loop                         *)
(***************************************************************************)
\* C5: when parse raises FetchError, fetch_spec_data handles it and returns
\* normally, without raising another error.
FetchErrorNonFatal ==
    (pc \in Terminal /\ outcome.kind = "FetchError") => (pc = "done" /\ error = "")

ToolsHtmlPrefix == <<"h","t","t","p","s",":","/","/","t","o","o","l","s",".","i","e","t","f",".","o","r","g","/","h","t","m","l","/">>

\* The URL ends in -NN, NN two digits and no more.
TwoDigitRevision(a_url) ==
    /\ Len(a_url) > Len(ToolsHtmlPrefix) + 3
    /\ a_url[Len(a_url) - 2] = "-"
    /\ a_url[Len(a_url) - 1] \in Digits
    /\ a_url[Len(a_url)] \in Digits

\* The URL up to its last hyphen.
BeforeLastHyphen(a_url) == Slice(a_url, 1, RFind(a_url, "-") - 1)

\* C6: given https://tools.ietf.org/html/<draft>-NN and fetches that all return
\* 200, the loop follows a redirect and ends with a record whose url is
\* https://tools.ietf.org/html/<draft> and whose org is IETF; a suffix that is
\* not exactly two digits is not stripped.
RevisionStripped ==
    (StartsWith(orig_url, ToolsHtmlPrefix) /\ pc \in Terminal /\ error # "HTTP status") =>
        IF TwoDigitRevision(orig_url)
        THEN /\ pc = "done"
             /\ redirected
             /\ ENTRY.url = Uni(BeforeLastHyphen(orig_url))
             /\ ENTRY.org = Uni(IETF)
        ELSE ENTRY.url # Uni(BeforeLastHyphen(orig_url))

\* C7: the loop always terminates: no chain of redirect signals is followed
\* forever.  parse is a function of the document and the URL, so on a web that
\* serves one document per URL a chain goes on forever exactly when it comes
\* back to a URL it has already fetched; the claim is that this never happens.
NoUrlFetchedTwice == ~refetched

W3CFamily == {"W3CParser", "WHATWGParser"}

\* The entry of the metadata block has a link.
Exists(link) == link.kind = "link"

\* The link, canonicalised.
Canon(link) == clean_url(link.s).val

\* The link exists and differs from "This version".
Differs(link, this) == Exists(link) /\ (Exists(this) => Canon(link) # Canon(this))

\* C8: W3CParser.parse redirects to the target of a refresh meta before
\* anything else; otherwise to an Editor's draft that exists and differs from
\* This version; otherwise to a Latest version that exists and differs from
\* This version; otherwise it returns a record whose url is This version if
\* there is one, else the canonicalised input URL.
W3CDecisionOrder ==
    (pc = "handle" /\ parser \in W3CFamily /\ outcome.kind \in {"BetterUrl", "Record"}) =>
        IF soup.refresh.has
        THEN outcome.kind = "BetterUrl" /\ soup.refresh.s = RefreshPrefix \o outcome.url
        ELSE IF Differs(soup.ed, soup.this)
        THEN outcome = BetterUrl(Canon(soup.ed))
        ELSE IF Differs(soup.latest, soup.this)
        THEN outcome = BetterUrl(Canon(soup.latest))
        ELSE /\ outcome.kind = "Record"
             /\ outcome.data.url =
                   Uni(IF Exists(soup.this) THEN Canon(soup.this) ELSE clean_url(url).val)

\* C8's case: no refresh, an Editor's draft equal to This version, a Latest
\* version that differs from it, and the redirect goes to the Latest version.
LatestVersionTaken ==
    /\ pc = "handle" /\ parser \in W3CFamily
    /\ ~soup.refresh.has
    /\ Exists(soup.ed) /\ Exists(soup.this) /\ Canon(soup.ed) = Canon(soup.this)
    /\ Differs(soup.latest, soup.this)
    /\ outcome = BetterUrl(Canon(soup.latest))

\* The first path component of a URL, "" when it has none.
PathPrefix(a_url) ==
    IF Len(Split(urlsplit(a_url).path, "/")) >= 2
    THEN Split(urlsplit(a_url).path, "/")[2] ELSE <<>>

\* The host and path prefix are among those the IETF parser redirects or reads
\* on purpose.
HandledByIETF(a_url) ==
    \/ Lower(urlsplit(a_url).netloc) = tools_ietf_org /\ PathPrefix(a_url) \in {html, id, pdf}
    \/ Lower(urlsplit(a_url).netloc) = www_ietf_org /\ PathPrefix(a_url) = id
    \/ Lower(urlsplit(a_url).netloc) = datatracker_ietf_org /\ PathPrefix(a_url) = doc

\* C9: for every other host and path prefix IETFParser.parse raises FetchError
\* and returns no record.
IETFOthersFail ==
    (/\ pc = "handle" /\ parser = "IETFParser"
     /\ PathPrefix(url) # <<>> /\ ~HandledByIETF(url)) =>
        outcome.kind = "FetchError"

(***************************************************************************)
(* Properties of the add verb                                              *)
(***************************************************************************)
\* A title, lowercased and stripped of surrounding whitespace.
Normalized(v) == Strip(Lower(v.s))

\* No two records share a normalized title or a url.
UniqueRecords(items) ==
    \A i, j \in 1..Len(items) :
        i < j =>
            /\ Normalized(Get(items[i].m, "title")) # Normalized(Get(items[j].m, "title"))
            /\ Get(items[i].m, "url") # Get(items[j].m, "url")

\* The record shares its normalized title or its url with one of the dataset.
Collides(e, items) ==
    \E i \in 1..Len(items) :
        \/ Normalized(items[i].m["title"]) = Normalized(e["title"])
        \/ items[i].m["url"] = e["url"]

\* C1: after any sequence of adds the dataset holds no two records with the
\* same normalized title or the same url; an add whose record collides raises
\* the duplicate error and appends nothing.
DatasetUnique ==
    /\ UniqueRecords(file.items)
    /\ UniqueRecords(data.items)
    /\ (pc \in {"create_issue", "append"} => ~Collides(ENTRY, data.items))
    /\ (pc = "exit" /\ error = "ValueError") => (data = file /\ Collides(ENTRY, data.items))

\* C1's case: after an earlier add made the dataset two records long, a record
\* whose title differs from a stored one in case and surrounding whitespace
\* only, and whose url is new, was refused.
DuplicateTitleRefused ==
    /\ pc = "exit" /\ error = "ValueError"
    /\ \E i \in 1..Len(data.items) :
          /\ data.items[i].m["title"] # ENTRY["title"]
          /\ Normalized(data.items[i].m["title"]) = Normalized(ENTRY["title"])
    /\ \A i \in 1..Len(data.items) : data.items[i].m["url"] # ENTRY["url"]
    /\ Len(data.items) = 2

\* C10: whenever create_issue created an issue for a record, the run ends with
\* the record appended and saved.
IssueImpliesSaved ==
    (filed /\ pc \in RunEnded) =>
        (pc = "end" /\ \E i \in 1..Len(file.items) : file.items[i] = Dict(ENTRY))

====
